---- MODULE Spec2Model ----
(***************************************************************************)
(* Model of the Financial Advisor CORS proxy (cors-proxy.py): the relay    *)
(* that creates a backend session, submits the user's message and returns  *)
(* either one aggregated reply or a re-streamed sequence of SSE frames.    *)
(*                                                                         *)
(* Text is a sequence of one-character strings.  The bullet character      *)
(* U+2022 is written Bullet.                                               *)
(***************************************************************************)
EXTENDS Integers, Sequences, FiniteSets, TLC

\* ------------------------------------------------------------------------
\* Bounds of the model
\* ------------------------------------------------------------------------
MaxEvents == 2
MaxFrames == 2
NumReqs == 2
MaxPieces == 4
MaxWebRequests == 3

\* ------------------------------------------------------------------------
\* Python str operations used by the proxy
\* ------------------------------------------------------------------------
NL == "\n"
Bullet == "BULLET"
Whitespace == {" ", NL, "\t"}

Min(a, b) == IF a < b THEN a ELSE b

RECURSIVE LStripSet(_, _)
LStripSet(s, cs) ==
    IF s # <<>> /\ Head(s) \in cs THEN LStripSet(Tail(s), cs) ELSE s

RECURSIVE RStripSet(_, _)
RStripSet(s, cs) ==
    IF s # <<>> /\ s[Len(s)] \in cs
    THEN RStripSet(SubSeq(s, 1, Len(s) - 1), cs)
    ELSE s

Strip(s) == RStripSet(LStripSet(s, Whitespace), Whitespace)

StartsWith(s, p) == Len(s) >= Len(p) /\ SubSeq(s, 1, Len(p)) = p

\* index of the first occurrence of p in s, 0 when there is none
Find(s, p) ==
    LET hits == {i \in 1..(Len(s) - Len(p) + 1) : SubSeq(s, i, i + Len(p) - 1) = p}
    IN  IF hits = {} THEN 0 ELSE CHOOSE i \in hits : \A j \in hits : i <= j

\* s.replace(old, new, 1)
ReplaceFirst(s, old, new) ==
    LET i == Find(s, old)
    IN  IF i = 0 THEN s
        ELSE SubSeq(s, 1, i - 1) \o new \o SubSeq(s, i + Len(old), Len(s))

\* s.split('\n')
RECURSIVE SplitLines(_)
SplitLines(s) ==
    LET i == Find(s, <<NL>>)
    IN  IF i = 0 THEN <<s>>
        ELSE <<SubSeq(s, 1, i - 1)>> \o SplitLines(SubSeq(s, i + 1, Len(s)))

\* a join that puts a blank line between the lines
RECURSIVE JoinBlank(_)
JoinBlank(lines) ==
    IF lines = <<>> THEN <<>>
    ELSE IF Len(lines) = 1 THEN lines[1]
    ELSE lines[1] \o <<NL, NL>> \o JoinBlank(Tail(lines))

\* '\n'.join(lines)
RECURSIVE Join(_)
Join(lines) ==
    IF lines = <<>> THEN <<>>
    ELSE IF Len(lines) = 1 THEN lines[1]
    ELSE lines[1] \o <<NL>> \o Join(Tail(lines))

\* c * n
Repeat(c, n) == [i \in 1..n |-> c]

\* ------------------------------------------------------------------------
\* format_text
\* ------------------------------------------------------------------------
StrongOpen == <<"<", "s", "t", "r", "o", "n", "g", ">">>
StrongClose == <<"<", "/", "s", "t", "r", "o", "n", "g", ">">>

\* a conversion of every pair of markers, not of the first pair only
RECURSIVE ReplaceBoldAll(_)
ReplaceBoldAll(text) ==
    LET once == ReplaceFirst(ReplaceFirst(text, <<"*", "*">>, StrongOpen),
                             <<"*", "*">>, StrongClose)
    IN  IF once = text THEN text ELSE ReplaceBoldAll(once)

\* text.replace("**", "<strong>", 1).replace("**", "</strong>", 1)
ReplaceBold(text) ==
    ReplaceFirst(ReplaceFirst(text, <<"*", "*">>, StrongOpen), <<"*", "*">>, StrongClose)

\* the body of the loop over the lines: what is appended for one line
format_line(raw) ==
    LET line == Strip(raw)
        header_level == Len(line) - Len(LStripSet(line, {"#"}))
        header_text == Strip(LStripSet(line, {"#", " "}))
        sep == Repeat("=", Min(header_level * 2, 8))
    IN  IF StartsWith(line, <<"-", " ">>) \/ StartsWith(line, <<Bullet, " ">>)
        THEN <<Bullet, " ">> \o SubSeq(line, 3, Len(line))
        ELSE IF StartsWith(line, <<"#">>)
        THEN <<NL>> \o sep \o <<" ">> \o header_text \o <<" ">> \o sep \o <<NL>>
        ELSE IF line = <<>> THEN <<>>
        ELSE line

format_text(text) ==
    LET lines == SplitLines(ReplaceBold(text))
        formatted_lines == [i \in 1..Len(lines) |-> format_line(lines[i])]
    IN  Join(formatted_lines)

\* ------------------------------------------------------------------------
\* Values exchanged with the client and with the backend
\* ------------------------------------------------------------------------
\* the "message" field of the POST /api/agent body: absent, "" or non-empty
MsgKinds == {"missing", "empty", "text"}

\* an exception e: its class, whether it is an httpx.TimeoutException, str(e)
NoExc == [cls |-> "none", timeout |-> FALSE, msg |-> <<>>]
ReadTimeout == [cls |-> "ReadTimeout", timeout |-> TRUE, msg |-> <<>>]
ReadError == [cls |-> "ReadError", timeout |-> FALSE, msg |-> <<>>]
ConnectError ==
    [cls |-> "ConnectError", timeout |-> FALSE, msg |-> <<"All connection attempts failed">>]
BackendExceptions == {ReadTimeout, ReadError, ConnectError}

\* session_data["id"] on a body without "id"
KeyErrorId == [cls |-> "KeyError", timeout |-> FALSE, msg |-> <<"'id'">>]
\* event_data.get(...) on a JSON value that is not an object
AttributeErrorGet ==
    [cls |-> "AttributeError", timeout |-> FALSE,
     msg |-> <<"'int' object has no attribute 'get'">>]

\* fastapi.HTTPException; str(e) is "<status_code>: <detail>"
HTTPException(status_code, detail) ==
    [cls |-> "HTTPException", timeout |-> FALSE,
     msg |-> <<ToString(status_code), ": ">> \o detail]

\* answers of the backend to POST .../sessions
SessionStatuses == {200, 201, 404, 500}
SessionIds == {"s1"}
NoId == ""
SessionAnswers ==
    [status : SessionStatuses, id : SessionIds \cup {NoId}]

\* answers of the backend to POST /run and POST /run_sse
RunStatuses == {200, 404, 500}

\* what the client of POST /api/agent gets back
NoResp == [kind |-> "none", status |-> 0, reply |-> <<>>, detail |-> <<>>]
JSONResponse(reply) == [kind |-> "json", status |-> 200, reply |-> reply, detail |-> <<>>]
ErrorResponse(status_code, detail) ==
    [kind |-> "error", status |-> status_code, reply |-> <<>>, detail |-> detail]
StreamingResponse == [kind |-> "stream", status |-> 200, reply |-> <<>>, detail |-> <<>>]

FallbackReply ==
    <<"I received your message but couldn't generate a response. Please try again.">>

\* ------------------------------------------------------------------------
\* Non-streaming: the events of a 200 answer of /run
\* ------------------------------------------------------------------------
NoTextPart == [hasText |-> FALSE, text |-> <<>>]
TextPart(t) == [hasText |-> TRUE, text |-> t]
NoContent == [hasContent |-> FALSE, parts |-> <<>>]
Content(parts) == [hasContent |-> TRUE, parts |-> parts]

EventCatalogue ==
    { NoContent,
      Content(<<>>),
      Content(<<NoTextPart>>),
      Content(<<TextPart(<<>>)>>),
      Content(<<TextPart(<<" ">>)>>),
      Content(<<TextPart(<<"a">>)>>),
      Content(<<TextPart(<<"-", " ">>), TextPart(<<"b">>)>>),
      Content(<<TextPart(<<"#">>), NoTextPart, TextPart(<<"a", " ">>)>>),
      Content(<<TextPart(<<"*", "*">>), TextPart(<<"b", NL>>)>>) }

EventArrays == UNION {[1..n -> EventCatalogue] : n \in 0..MaxEvents}

\* a loop that reads the first part only
PartsTextFirstOnly(parts) ==
    IF parts # <<>> /\ Head(parts).hasText THEN Head(parts).text ELSE <<>>

\* for part in event["content"]["parts"]: if part.get("text"): reply_text += part["text"]
RECURSIVE PartsText(_)
PartsText(parts) ==
    IF parts = <<>> THEN <<>>
    ELSE (IF Head(parts).hasText /\ Head(parts).text # <<>>
          THEN Head(parts).text ELSE <<>>) \o PartsText(Tail(parts))

\* for event in events: if event.get("content") and ....get("parts"): ...
RECURSIVE ExtractReplyText(_)
ExtractReplyText(evs) ==
    IF evs = <<>> THEN <<>>
    ELSE (IF Head(evs).hasContent /\ Head(evs).parts # <<>>
          THEN PartsText(Head(evs).parts) ELSE <<>>) \o ExtractReplyText(Tail(evs))

\* the reply of a 200 answer of /run
BuildReply(evs) ==
    LET reply_text == ExtractReplyText(evs)
    IN  IF reply_text # <<>>
        THEN JSONResponse(format_text(Strip(reply_text)))
        ELSE JSONResponse(FallbackReply)

\* except clauses that drop the message of the exception they caught
HandleExceptionNoMessage(e) ==
    IF e.timeout
    THEN ErrorResponse(504, <<"Request timeout - the AI is processing your request">>)
    ELSE ErrorResponse(500, <<"Proxy error: ">>)

\* the except clauses of get_agent_response
HandleException(e) ==
    IF e.timeout
    THEN ErrorResponse(504, <<"Request timeout - the AI is processing your request">>)
    ELSE ErrorResponse(500, <<"Proxy error: ">> \o e.msg)

\* ------------------------------------------------------------------------
\* Streaming: the text of a 200 answer of /run_sse
\* ------------------------------------------------------------------------
\* The text is a sequence of lexemes: the prefix "data: ", the braces of a
\* JSON event, the text of a part, a part without text, a payload that is not
\* JSON, a JSON number, a comment line, and the newline.
DATA == "data: "
TextLex == {"Hello", " world", ""}
NoTextLex == "nt"
PartLex == TextLex \cup {NoTextLex}

\* the frames a backend emits, each one line of lexemes
FrameCatalogue ==
    { <<DATA, "{", "Hello", "}">>,
      <<DATA, "{", " world", "}">>,
      <<DATA, "{", "Hello", NoTextLex, " world", "}">>,
      <<DATA, "{", "", "}">>,
      <<DATA, "{", "}">>,
      <<DATA, "x">>,
      <<DATA, "5">>,
      <<": ping">> }

BackendStreams == UNION {[1..n -> FrameCatalogue] : n \in 0..MaxFrames}

\* the text the backend writes: every frame followed by a blank line
RECURSIVE Wire(_)
Wire(frames) ==
    IF frames = <<>> THEN <<>>
    ELSE Head(frames) \o <<NL, NL>> \o Wire(Tail(frames))

\* frames sent to the client: f"data: {json.dumps({key: value})}\n\n"
TokenFrame(text) == [key |-> "token", value |-> <<text>>]
ErrorFrame(message) == [key |-> "error", value |-> message]
DoneFrame == [key |-> "done", value |-> <<"true">>]

\* json.loads(line[6:]) succeeds and gives an object
IsJsonObject(payload) ==
    /\ Len(payload) >= 2
    /\ payload[1] = "{"
    /\ payload[Len(payload)] = "}"
    /\ \A i \in 2..(Len(payload) - 1) : payload[i] \in PartLex

\* json.loads(line[6:]) succeeds and gives a value without .get
IsJsonNumber(payload) == payload = <<"5">>

\* the token frames of one parsed event
RECURSIVE PartTokens(_)
PartTokens(parts) ==
    IF parts = <<>> THEN <<>>
    ELSE (IF Head(parts) \in TextLex /\ Head(parts) # ""
          THEN <<TokenFrame(Head(parts))>> ELSE <<>>) \o PartTokens(Tail(parts))

\* one line of a chunk: the frames it yields and the exception it raises
ParseLine(line) ==
    IF ~StartsWith(line, <<DATA>>) THEN [yields |-> <<>>, raised |-> NoExc]
    ELSE LET payload == Tail(line)
         IN  IF IsJsonObject(payload)
             THEN [yields |-> PartTokens(SubSeq(payload, 2, Len(payload) - 1)),
                   raised |-> NoExc]
             ELSE IF IsJsonNumber(payload)
             THEN [yields |-> <<>>, raised |-> AttributeErrorGet]
             ELSE [yields |-> <<>>, raised |-> NoExc]

\* for line in chunk.split('\n'): stops at the first exception
RECURSIVE ParseLines(_)
ParseLines(lines) ==
    IF lines = <<>> THEN [yields |-> <<>>, raised |-> NoExc]
    ELSE LET first == ParseLine(Head(lines))
         IN  IF first.raised # NoExc THEN first
             ELSE LET rest == ParseLines(Tail(lines))
                  IN  [yields |-> first.yields \o rest.yields, raised |-> rest.raised]

\* the body of "async for chunk"
ProcessChunk(chunk) ==
    IF Strip(chunk) # <<>> THEN ParseLines(SplitLines(chunk))
    ELSE [yields |-> <<>>, raised |-> NoExc]

\* the except clause of stream_agent_response, and the final yield
StreamException(e) == <<ErrorFrame(<<"Streaming error: ">> \o e.msg), DoneFrame>>

\* a relay that never looks at the status of the session answer
SessionFailedNever(status_code) == FALSE

\* if session_create_response.status_code != 200
SessionFailed(status_code) == status_code # 200

\* ------------------------------------------------------------------------
\* State of one POST /api/agent request
\* ------------------------------------------------------------------------
VARIABLES
    msg,            \* the message field of the request body
    streaming,      \* the streaming field of the request body
    pc,             \* where the handler is suspended
    sessionCalls,   \* number of POST .../sessions issued
    runCalls,       \* number of POST /run and POST /run_sse issued
    sessionStatus,  \* status of the answer to the session call, 0 if none
    sessionId,      \* session_id
    runRequest,     \* run_request, as sent
    runStatus,      \* status of the answer to the run call, 0 if none
    events,         \* response.json() of /run
    stream,         \* the frames the backend emits on /run_sse
    remaining,      \* the part of the backend text not yet read
    cut,            \* a chunk has ended inside a line of the backend text
    pending,        \* frames the generator has still to yield before it goes on
    out,            \* frames sent to the client
    resp,           \* the HTTP response of the request
    failure,        \* which failure ended the request
    exc             \* the exception caught, NoExc if none

relayVars == <<msg, streaming, pc, sessionCalls, runCalls, sessionStatus, sessionId,
               runRequest, runStatus, events, stream, remaining, cut, pending,
               out, resp, failure, exc>>

\* Concurrent requests of the proxy and the backend's sessions
VARIABLES
    reqPc,          \* per request: where its handler is suspended
    reqMode,        \* per request: TRUE for the streaming mode
    reqSession,     \* per request: its local session_id
    reqRun,         \* per request: the sessionId its run_request carried
    inflight,       \* per request: the backend's answer not yet received
    backendNext,    \* number of sessions the backend has created
    createdFor      \* per backend session: the request whose call created it

concVars == <<reqPc, reqMode, reqSession, reqRun, inflight, backendNext, createdFor>>

\* One call of format_text, and a second call on its result
VARIABLES
    fmtPc,          \* "idle", "in", "once" or "twice"
    fmtText,        \* the argument
    fmtOnce,        \* format_text(fmtText)
    fmtTwice        \* format_text(fmtOnce)

fmtVars == <<fmtPc, fmtText, fmtOnce, fmtTwice>>

\* web_server.py: the global runner and one chat request at a time
VARIABLES
    webPc,          \* "idle", "boot", "ready", "session", "run" or "answered"
    runner,         \* the global runner, NoRunner for None
    built,          \* number of InMemoryRunner objects constructed
    failed,         \* number of initializations that raised
    served,         \* number of requests handled so far
    agent_runner,   \* the local agent_runner of the chat request
    webEvents,      \* the events run_async has still to produce
    webSeen,        \* the events run_async has produced
    response_text,  \* the local response_text of the chat request
    webResp         \* the response of the last request

webVars == <<webPc, runner, built, failed, served, agent_runner, webEvents, webSeen,
             response_text, webResp>>

vars == <<relayVars, concVars, fmtVars, webVars>>

Reqs == 1..NumReqs
NoRunner == 0
NoSession == 0
NoAnswer == [status |-> 0, id |-> 0]

ConcIdle ==
    /\ reqPc = [r \in Reqs |-> "idle"]
    /\ reqMode = [r \in Reqs |-> FALSE]
    /\ reqSession = [r \in Reqs |-> NoSession]
    /\ reqRun = [r \in Reqs |-> NoSession]
    /\ inflight = [r \in Reqs |-> NoAnswer]
    /\ backendNext = 0
    /\ createdFor = <<>>

FmtIdle ==
    /\ fmtPc = "idle"
    /\ fmtText = <<>>
    /\ fmtOnce = <<>>
    /\ fmtTwice = <<>>

WebIdle ==
    /\ webPc = "idle"
    /\ runner = NoRunner
    /\ built = 0
    /\ failed = 0
    /\ served = 0
    /\ agent_runner = NoRunner
    /\ webEvents = <<>>
    /\ webSeen = <<>>
    /\ response_text = <<>>
    /\ webResp = NoResp

NoRequest == [sessionId |-> NoId, message |-> "none", streaming |-> FALSE]

\* run_request
RunRequest(session_id, message, isStreaming) ==
    [sessionId |-> session_id, message |-> message, streaming |-> isStreaming]

Init ==
    /\ msg \in MsgKinds
    /\ streaming \in BOOLEAN
    /\ pc = "request"
    /\ sessionCalls = 0
    /\ runCalls = 0
    /\ sessionStatus = 0
    /\ sessionId = NoId
    /\ runRequest = NoRequest
    /\ runStatus = 0
    /\ events = <<>>
    /\ stream = <<>>
    /\ remaining = <<>>
    /\ cut = FALSE
    /\ pending = <<>>
    /\ out = <<>>
    /\ resp = NoResp
    /\ failure = "none"
    /\ exc = NoExc
    /\ ConcIdle
    /\ FmtIdle
    /\ WebIdle

\* POST /api/agent: validation of the body against ChatMessage, then dispatch
proxy_agent_request ==
    /\ pc = "request"
    /\ IF msg = "missing"
       THEN /\ resp' = ErrorResponse(422, <<"Field required">>)
            /\ failure' = "validation"
            /\ pc' = "done"
       ELSE IF streaming
       THEN /\ resp' = StreamingResponse
            /\ failure' = failure
            /\ pc' = "s_session"
       ELSE /\ resp' = resp
            /\ failure' = failure
            /\ pc' = "n_session"
    /\ UNCHANGED <<msg, streaming, sessionCalls, runCalls, sessionStatus, sessionId,
                   runRequest, runStatus, events, stream, remaining, cut,
                   pending, out, exc>>
    /\ UNCHANGED <<concVars, fmtVars, webVars>>

\* ---- get_agent_response ----
\* the request ends with the response the except clauses build for e
NsRaise(e, why) ==
    /\ resp' = HandleException(e)
    /\ failure' = why
    /\ exc' = e
    /\ pc' = "done"

\* await client.post(.../sessions) and the code up to the next await
get_agent_response_session ==
    /\ pc = "n_session"
    /\ sessionCalls' = sessionCalls + 1
    /\ \/ \E e \in BackendExceptions :
            /\ NsRaise(e, IF e.timeout THEN "timeout" ELSE "exception")
            /\ UNCHANGED <<sessionStatus, sessionId>>
       \/ \E a \in SessionAnswers :
            /\ sessionStatus' = a.status
            /\ IF SessionFailed(a.status)
               THEN /\ NsRaise(HTTPException(500, <<"Failed to create session">>), "session")
                    /\ sessionId' = sessionId
               ELSE IF a.id = NoId
               THEN /\ NsRaise(KeyErrorId, "exception")
                    /\ sessionId' = sessionId
               ELSE /\ sessionId' = a.id
                    /\ pc' = "n_run"
                    /\ UNCHANGED <<resp, failure, exc>>
    /\ UNCHANGED <<msg, streaming, runCalls, runRequest, runStatus, events, stream,
                   remaining, cut, pending, out>>
    /\ UNCHANGED <<concVars, fmtVars, webVars>>

\* await client.post(/run) and the code up to the return
get_agent_response_run ==
    /\ pc = "n_run"
    /\ runCalls' = runCalls + 1
    /\ runRequest' = RunRequest(sessionId, msg, FALSE)
    /\ \/ \E e \in BackendExceptions :
            /\ NsRaise(e, IF e.timeout THEN "timeout" ELSE "exception")
            /\ UNCHANGED <<runStatus, events>>
       \/ \E st \in RunStatuses :
            /\ runStatus' = st
            /\ IF st = 200
               THEN \E evs \in EventArrays :
                        /\ events' = evs
                        /\ resp' = BuildReply(evs)
                        /\ pc' = "done"
                        /\ UNCHANGED <<failure, exc>>
               ELSE /\ NsRaise(HTTPException(500, <<"Backend error: ", ToString(st)>>), "run")
                    /\ events' = events
    /\ UNCHANGED <<msg, streaming, sessionCalls, sessionStatus, sessionId, stream,
                   remaining, cut, pending, out>>
    /\ UNCHANGED <<concVars, fmtVars, webVars>>

\* ---- stream_agent_response ----
\* the generator yields the frames fs one by one and then finishes
SsFinish(fs, why, e) ==
    /\ pending' = fs
    /\ failure' = why
    /\ exc' = e
    /\ pc' = "done"

\* await client.post(.../sessions) and the code up to the next suspension
stream_session ==
    /\ pc = "s_session"
    /\ pending = <<>>
    /\ sessionCalls' = sessionCalls + 1
    /\ \/ \E e \in BackendExceptions :
            /\ SsFinish(StreamException(e), IF e.timeout THEN "timeout" ELSE "exception", e)
            /\ UNCHANGED <<sessionStatus, sessionId>>
       \/ \E a \in SessionAnswers :
            /\ sessionStatus' = a.status
            /\ IF SessionFailed(a.status)
               THEN /\ SsFinish(<<ErrorFrame(<<"Failed to create session">>)>>, "session", NoExc)
                    /\ sessionId' = sessionId
               ELSE IF a.id = NoId
               THEN /\ SsFinish(StreamException(KeyErrorId), "exception", KeyErrorId)
                    /\ sessionId' = sessionId
               ELSE /\ sessionId' = a.id
                    /\ pc' = "s_run"
                    /\ UNCHANGED <<pending, failure, exc>>
    /\ UNCHANGED <<msg, streaming, runCalls, runRequest, runStatus, events, stream,
                   remaining, cut, out, resp>>
    /\ UNCHANGED <<concVars, fmtVars, webVars>>

\* async with client.stream("POST", /run_sse): the answer's status
stream_run ==
    /\ pc = "s_run"
    /\ pending = <<>>
    /\ runCalls' = runCalls + 1
    /\ runRequest' = RunRequest(sessionId, msg, TRUE)
    /\ \/ \E e \in BackendExceptions :
            /\ SsFinish(StreamException(e), IF e.timeout THEN "timeout" ELSE "exception", e)
            /\ UNCHANGED <<runStatus, stream, remaining>>
       \/ \E st \in RunStatuses :
            /\ runStatus' = st
            /\ IF st = 200
               THEN \E frames \in BackendStreams :
                        /\ stream' = frames
                        /\ remaining' = Wire(frames)
                        /\ pc' = "s_read"
                        /\ UNCHANGED <<pending, failure, exc>>
               ELSE /\ SsFinish(<<ErrorFrame(<<"Backend error: ", ToString(st)>>), DoneFrame>>,
                                "run", NoExc)
                    /\ UNCHANGED <<stream, remaining>>
    /\ UNCHANGED <<msg, streaming, sessionCalls, sessionStatus, sessionId, events,
                   cut, out, resp>>
    /\ UNCHANGED <<concVars, fmtVars, webVars>>

\* async for chunk in response.aiter_text(): the next chunk is any non-empty
\* prefix of the text not yet read
stream_chunk ==
    /\ pc = "s_read"
    /\ pending = <<>>
    /\ remaining # <<>>
    /\ \E n \in 1..Len(remaining) :
        LET chunk == SubSeq(remaining, 1, n)
            r == ProcessChunk(chunk)
        IN  /\ remaining' = SubSeq(remaining, n + 1, Len(remaining))
            /\ cut' = (cut \/ (chunk[n] # NL /\ n < Len(remaining)))
            /\ IF r.raised # NoExc
               THEN SsFinish(r.yields \o StreamException(r.raised), "exception", r.raised)
               ELSE /\ pending' = r.yields
                    /\ UNCHANGED <<pc, failure, exc>>
    /\ UNCHANGED <<msg, streaming, sessionCalls, runCalls, sessionStatus, sessionId,
                   runRequest, runStatus, events, stream, out, resp>>
    /\ UNCHANGED <<concVars, fmtVars, webVars>>

\* reading the next chunk raises
stream_chunk_raise ==
    /\ pc = "s_read"
    /\ pending = <<>>
    /\ \E e \in BackendExceptions :
        SsFinish(StreamException(e), IF e.timeout THEN "timeout" ELSE "exception", e)
    /\ UNCHANGED <<msg, streaming, sessionCalls, runCalls, sessionStatus, sessionId,
                   runRequest, runStatus, events, stream, remaining, cut, out, resp>>
    /\ UNCHANGED <<concVars, fmtVars, webVars>>

\* the backend text is exhausted: the final yield
stream_end ==
    /\ pc = "s_read"
    /\ pending = <<>>
    /\ remaining = <<>>
    /\ pending' = <<DoneFrame>>
    /\ pc' = "done"
    /\ UNCHANGED <<msg, streaming, sessionCalls, runCalls, sessionStatus, sessionId,
                   runRequest, runStatus, events, stream, remaining, cut, out,
                   resp, failure, exc>>
    /\ UNCHANGED <<concVars, fmtVars, webVars>>

\* the client takes the frame the generator is suspended on
stream_yield ==
    /\ pending # <<>>
    /\ out' = Append(out, Head(pending))
    /\ pending' = Tail(pending)
    /\ UNCHANGED <<msg, streaming, pc, sessionCalls, runCalls, sessionStatus, sessionId,
                   runRequest, runStatus, events, stream, remaining, cut, resp,
                   failure, exc>>
    /\ UNCHANGED <<concVars, fmtVars, webVars>>

Next ==
    \/ proxy_agent_request
    \/ get_agent_response_session
    \/ get_agent_response_run
    \/ stream_session
    \/ stream_run
    \/ stream_chunk
    \/ stream_chunk_raise
    \/ stream_end
    \/ stream_yield

Spec == Init /\ [][Next]_vars

\* the request is over: the response is complete and nothing more is sent
Finished == pc = "done" /\ pending = <<>>

\* ------------------------------------------------------------------------
\* Concurrent requests: every handler keeps its session in local variables
\* ------------------------------------------------------------------------
InitConc ==
    /\ reqPc = [r \in Reqs |-> "request"]
    /\ reqMode \in [Reqs -> BOOLEAN]
    /\ reqSession = [r \in Reqs |-> NoSession]
    /\ reqRun = [r \in Reqs |-> NoSession]
    /\ inflight = [r \in Reqs |-> NoAnswer]
    /\ backendNext = 0
    /\ createdFor = <<>>
    /\ msg = "text" /\ streaming = FALSE /\ pc = "idle"
    /\ sessionCalls = 0 /\ runCalls = 0 /\ sessionStatus = 0 /\ sessionId = NoId
    /\ runRequest = NoRequest /\ runStatus = 0 /\ events = <<>> /\ stream = <<>>
    /\ remaining = <<>> /\ cut = FALSE /\ pending = <<>> /\ out = <<>>
    /\ resp = NoResp /\ failure = "none" /\ exc = NoExc
    /\ FmtIdle
    /\ WebIdle

\* a relay that sends the session the backend created last
RunSessionIdLatest(session_id, latest) == latest

\* "sessionId": session_id in run_request
RunSessionId(session_id, latest) == session_id

\* the handler of request r issues client.post(.../sessions) and is suspended
conc_post_session(r) ==
    /\ reqPc[r] = "request"
    /\ reqPc' = [reqPc EXCEPT ![r] = "await_session"]
    /\ UNCHANGED <<reqMode, reqSession, reqRun, inflight, backendNext, createdFor>>
    /\ UNCHANGED <<relayVars, fmtVars, webVars>>

\* the backend handles the session-creation call of r: a new session, or a failure
conc_backend_session(r) ==
    /\ reqPc[r] = "await_session"
    /\ inflight[r] = NoAnswer
    /\ \/ /\ backendNext' = backendNext + 1
          /\ createdFor' = Append(createdFor, r)
          /\ inflight' = [inflight EXCEPT ![r] = [status |-> 200, id |-> backendNext + 1]]
       \/ /\ inflight' = [inflight EXCEPT ![r] = [status |-> 500, id |-> 0]]
          /\ UNCHANGED <<backendNext, createdFor>>
    /\ UNCHANGED <<reqPc, reqMode, reqSession, reqRun>>
    /\ UNCHANGED <<relayVars, fmtVars, webVars>>

\* the handler of r resumes with the answer: it stops, or takes the id and
\* issues the run call (/run or /run_sse)
conc_session_answer(r) ==
    /\ reqPc[r] = "await_session"
    /\ inflight[r] # NoAnswer
    /\ inflight' = [inflight EXCEPT ![r] = NoAnswer]
    /\ IF SessionFailed(inflight[r].status)
       THEN /\ reqPc' = [reqPc EXCEPT ![r] = "done"]
            /\ UNCHANGED <<reqSession, reqRun>>
       ELSE /\ reqSession' = [reqSession EXCEPT ![r] = inflight[r].id]
            /\ reqRun' = [reqRun EXCEPT ![r] = RunSessionId(inflight[r].id, backendNext)]
            /\ reqPc' = [reqPc EXCEPT ![r] = "await_run"]
    /\ UNCHANGED <<reqMode, backendNext, createdFor>>
    /\ UNCHANGED <<relayVars, fmtVars, webVars>>

\* the session-creation call of r raises (timeout, network error)
conc_session_raise(r) ==
    /\ reqPc[r] = "await_session"
    /\ reqPc' = [reqPc EXCEPT ![r] = "done"]
    /\ inflight' = [inflight EXCEPT ![r] = NoAnswer]
    /\ UNCHANGED <<reqMode, reqSession, reqRun, backendNext, createdFor>>
    /\ UNCHANGED <<relayVars, fmtVars, webVars>>

\* the run call of r is answered or raises: the handler of r finishes
conc_run_answer(r) ==
    /\ reqPc[r] = "await_run"
    /\ reqPc' = [reqPc EXCEPT ![r] = "done"]
    /\ UNCHANGED <<reqMode, reqSession, reqRun, inflight, backendNext, createdFor>>
    /\ UNCHANGED <<relayVars, fmtVars, webVars>>

NextConc ==
    \E r \in Reqs :
        \/ conc_post_session(r)
        \/ conc_backend_session(r)
        \/ conc_session_answer(r)
        \/ conc_session_raise(r)
        \/ conc_run_answer(r)

SpecConc == InitConc /\ [][NextConc]_vars

\* ------------------------------------------------------------------------
\* format_text applied to a text, and to its own result
\* ------------------------------------------------------------------------
\* the texts are built from at most MaxPieces of these pieces
FmtPieces ==
    { <<"*", "*">>, <<"*">>, <<"#">>, <<" ">>, <<"a">>, <<NL>>,
      <<"-", " ">>, <<Bullet, " ">> }

RECURSIVE Flatten(_)
Flatten(ps) == IF ps = <<>> THEN <<>> ELSE Head(ps) \o Flatten(Tail(ps))

FmtTexts == {Flatten(ps) : ps \in UNION {[1..n -> FmtPieces] : n \in 0..MaxPieces}}

InitFmt ==
    /\ fmtPc = "in"
    /\ fmtText \in FmtTexts
    /\ fmtOnce = <<>>
    /\ fmtTwice = <<>>
    /\ msg = "text" /\ streaming = FALSE /\ pc = "idle"
    /\ sessionCalls = 0 /\ runCalls = 0 /\ sessionStatus = 0 /\ sessionId = NoId
    /\ runRequest = NoRequest /\ runStatus = 0 /\ events = <<>> /\ stream = <<>>
    /\ remaining = <<>> /\ cut = FALSE /\ pending = <<>> /\ out = <<>>
    /\ resp = NoResp /\ failure = "none" /\ exc = NoExc
    /\ ConcIdle
    /\ WebIdle

\* format_text(text)
fmt_call ==
    /\ fmtPc = "in"
    /\ fmtOnce' = format_text(fmtText)
    /\ fmtPc' = "once"
    /\ UNCHANGED <<fmtText, fmtTwice>>
    /\ UNCHANGED <<relayVars, concVars, webVars>>

\* format_text applied to a text that format_text returned
fmt_again ==
    /\ fmtPc = "once"
    /\ fmtTwice' = format_text(fmtOnce)
    /\ fmtPc' = "twice"
    /\ UNCHANGED <<fmtText, fmtOnce>>
    /\ UNCHANGED <<relayVars, concVars, webVars>>

NextFmt == fmt_call \/ fmt_again

SpecFmt == InitFmt /\ [][NextFmt]_vars

\* ------------------------------------------------------------------------
\* web_server.py: lazy initialization of the runner, and the chat endpoint
\* ------------------------------------------------------------------------
InitWeb ==
    /\ webPc = "boot"
    /\ runner = NoRunner
    /\ built = 0
    /\ failed = 0
    /\ served = 0
    /\ agent_runner = NoRunner
    /\ webEvents = <<>>
    /\ webSeen = <<>>
    /\ response_text = <<>>
    /\ webResp = NoResp
    /\ msg = "text" /\ streaming = FALSE /\ pc = "idle"
    /\ sessionCalls = 0 /\ runCalls = 0 /\ sessionStatus = 0 /\ sessionId = NoId
    /\ runRequest = NoRequest /\ runStatus = 0 /\ events = <<>> /\ stream = <<>>
    /\ remaining = <<>> /\ cut = FALSE /\ pending = <<>> /\ out = <<>>
    /\ resp = NoResp /\ failure = "none" /\ exc = NoExc
    /\ ConcIdle
    /\ FmtIdle

\* an initialization without the "if runner is None" test
initialize_agent_always(cur, n, ok) ==
    IF ok THEN [runner |-> n + 1, built |-> n + 1, raised |-> FALSE]
    ELSE [runner |-> cur, built |-> n, raised |-> TRUE]

\* initialize_agent(): cur is the global runner, n the number of runners
\* built so far, ok whether the imports and the constructor succeed
initialize_agent(cur, n, ok) ==
    IF cur = NoRunner
    THEN IF ok THEN [runner |-> n + 1, built |-> n + 1, raised |-> FALSE]
         ELSE [runner |-> NoRunner, built |-> n, raised |-> TRUE]
    ELSE [runner |-> cur, built |-> n, raised |-> FALSE]

HealthResponse(ready) ==
    [kind |-> "health", status |-> 200, reply |-> <<>>,
     detail |-> IF ready THEN <<"ok">> ELSE <<"error">>]

\* HTTPException(status_code=500, detail=f"Internal server error: {str(e)}")
WebError(message) == ErrorResponse(500, <<"Internal server error: ", message>>)
NoneTypeHasNoParts == "'NoneType' object has no attribute 'parts'"

\* @app.on_event("startup"): a failure is logged and swallowed
startup_event ==
    /\ webPc = "boot"
    /\ \E ok \in BOOLEAN :
        LET r == initialize_agent(runner, built, ok)
        IN  /\ runner' = r.runner
            /\ built' = r.built
            /\ failed' = failed + (IF r.raised THEN 1 ELSE 0)
    /\ webPc' = "ready"
    /\ UNCHANGED <<served, agent_runner, webEvents, webSeen, response_text, webResp>>
    /\ UNCHANGED <<relayVars, concVars, fmtVars>>

\* GET /: no state is read or written
health_check ==
    /\ webPc \in {"ready", "session", "run"}
    /\ served < MaxWebRequests
    /\ served' = served + 1
    /\ UNCHANGED <<webPc, runner, built, failed, agent_runner, webEvents, webSeen,
                   response_text, webResp>>
    /\ UNCHANGED <<relayVars, concVars, fmtVars>>

\* GET /api/health, also while a chat request is suspended
api_health ==
    /\ webPc \in {"ready", "session", "run"}
    /\ served < MaxWebRequests
    /\ served' = served + 1
    /\ \E ok \in BOOLEAN :
        LET r == initialize_agent(runner, built, ok)
        IN  /\ runner' = r.runner
            /\ built' = r.built
            /\ failed' = failed + (IF r.raised THEN 1 ELSE 0)
            /\ webResp' = IF webPc = "ready" THEN HealthResponse(~r.raised) ELSE webResp
    /\ UNCHANGED <<webPc, agent_runner, webEvents, webSeen, response_text>>
    /\ UNCHANGED <<relayVars, concVars, fmtVars>>

\* POST /api/agent up to "await ...create_session(...)"
chat_with_agent ==
    /\ webPc = "ready"
    /\ served < MaxWebRequests
    /\ served' = served + 1
    /\ \E ok \in BOOLEAN :
        LET r == initialize_agent(runner, built, ok)
        IN  /\ runner' = r.runner
            /\ built' = r.built
            /\ failed' = failed + (IF r.raised THEN 1 ELSE 0)
            /\ IF r.raised
               THEN /\ webResp' = WebError("init")
                    /\ UNCHANGED <<webPc, agent_runner>>
               ELSE /\ webResp' = NoResp
                    /\ agent_runner' = r.runner
                    /\ webPc' = "session"
    /\ webEvents' = <<>>
    /\ webSeen' = <<>>
    /\ response_text' = <<>>
    /\ UNCHANGED <<relayVars, concVars, fmtVars>>

\* create_session returns or raises; run_async starts
chat_session ==
    /\ webPc = "session"
    /\ \/ /\ webResp' = WebError("session")
          /\ webPc' = "ready"
          /\ UNCHANGED <<webEvents>>
       \/ \E evs \in EventArrays :
          /\ webEvents' = evs
          /\ webPc' = "run"
          /\ UNCHANGED <<webResp>>
    /\ UNCHANGED <<runner, built, failed, served, agent_runner, webSeen, response_text>>
    /\ UNCHANGED <<relayVars, concVars, fmtVars>>

\* one iteration of "async for event in agent_runner.run_async(...)"
chat_event ==
    /\ webPc = "run"
    /\ webEvents # <<>>
    /\ LET event == Head(webEvents)
       IN  /\ webSeen' = Append(webSeen, event)
           /\ webEvents' = Tail(webEvents)
           /\ IF ~event.hasContent
              THEN /\ webResp' = WebError(NoneTypeHasNoParts)
                   /\ webPc' = "ready"
                   /\ UNCHANGED response_text
              ELSE /\ response_text' =
                        IF event.parts # <<>> /\ event.parts[1].text # <<>>
                        THEN response_text \o event.parts[1].text
                        ELSE response_text
                   /\ UNCHANGED <<webPc, webResp>>
    /\ UNCHANGED <<runner, built, failed, served, agent_runner>>
    /\ UNCHANGED <<relayVars, concVars, fmtVars>>

\* run_async raises
chat_run_raise ==
    /\ webPc = "run"
    /\ webResp' = WebError("run")
    /\ webPc' = "ready"
    /\ UNCHANGED <<runner, built, failed, served, agent_runner, webEvents, webSeen,
                   response_text>>
    /\ UNCHANGED <<relayVars, concVars, fmtVars>>

\* return ChatResponse(reply=response_text.strip())
chat_return ==
    /\ webPc = "run"
    /\ webEvents = <<>>
    /\ webResp' = JSONResponse(Strip(response_text))
    /\ webPc' = "ready"
    /\ UNCHANGED <<runner, built, failed, served, agent_runner, webEvents, webSeen,
                   response_text>>
    /\ UNCHANGED <<relayVars, concVars, fmtVars>>

NextWeb ==
    \/ startup_event
    \/ health_check
    \/ api_health
    \/ chat_with_agent
    \/ chat_session
    \/ chat_event
    \/ chat_run_raise
    \/ chat_return

SpecWeb == InitWeb /\ [][NextWeb]_vars

\* ------------------------------------------------------------------------
\* Properties
\* ------------------------------------------------------------------------
Indices(key) == {i \in 1..Len(out) : out[i].key = key}

\* the session-creation call was answered 200 or with a status that is not 2xx
SessionAnswerPlain == sessionStatus \notin 201..299

\* C1: every streamed response ends with exactly one {done: true} frame and
\* no frame is sent after it.
C1_StreamEndsWithDone ==
    (resp.kind = "stream" /\ SessionAnswerPlain) =>
        /\ \A i \in Indices("done") : i = Len(out)
        /\ Finished => (out # <<>> /\ out[Len(out)] = DoneFrame)

\* C2 (as stated): a request with a non-empty message issues exactly one
\* session-creation call and exactly one run call, whatever the backend
\* answers.
C2_ExactlyOneSessionAndRun ==
    (Finished /\ msg = "text" /\ exc = NoExc /\ SessionAnswerPlain) =>
        (sessionCalls = 1 /\ runCalls = 1)

\* C2 (amended): a request with a non-empty message issues exactly one
\* session-creation call and at most one run call: exactly one run call when
\* the session-creation call answers 200 with a session id, none when it
\* answers with a status that is not 2xx or raises.
C2_OneSessionAtMostOneRun ==
    msg = "text" =>
        /\ sessionCalls <= 1
        /\ runCalls <= 1
        /\ pc \notin {"request", "n_session", "s_session"} => sessionCalls = 1
        /\ sessionStatus \notin 200..299 => runCalls = 0
        /\ (Finished /\ sessionStatus = 200 /\ sessionId # NoId) => runCalls = 1

C2_Witness ==
    /\ Finished /\ msg = "text"
    /\ sessionCalls = 1 /\ runCalls = 1 /\ runStatus = 500

\* C3: when the session-creation call is answered with a failure status, no
\* run call is issued in either mode, the session-creation call is not
\* repeated, and the non-streaming mode answers with a 5xx error whose detail
\* names the session-creation failure.
C3_SessionFailureStopsRequest ==
    (sessionStatus # 0 /\ sessionStatus \notin 200..299) =>
        /\ runCalls = 0
        /\ sessionCalls = 1
        /\ pc = "done"
        /\ ~streaming =>
             /\ resp.kind = "error"
             /\ resp.status \in 500..599
             /\ \E i \in 1..Len(resp.detail) : resp.detail[i] = "Failed to create session"

C3_Witness ==
    /\ Finished /\ ~streaming /\ sessionStatus = 500
    /\ resp.kind = "error" /\ runCalls = 0

\* C4: a request whose message is missing or empty is rejected with a 4xx
\* error and no backend call is issued for it.
C4_EmptyMessageRejected ==
    msg \in {"missing", "empty"} =>
        /\ sessionCalls = 0
        /\ runCalls = 0
        /\ Finished => (resp.kind = "error" /\ resp.status \in 400..499)

\* the token frames the text parts of the backend frames call for: one per
\* part with a non-empty text, in the order of the frames and of their parts
RECURSIVE ExpectedTokens(_)
ExpectedTokens(frames) ==
    IF frames = <<>> THEN <<>>
    ELSE LET f == Head(frames)
             texts == IF f[1] = DATA /\ f[2] = "{"
                      THEN SelectSeq(SubSeq(f, 3, Len(f) - 1),
                                     LAMBDA x : x \in TextLex /\ x # "")
                      ELSE <<>>
         IN  [i \in 1..Len(texts) |-> TokenFrame(texts[i])] \o ExpectedTokens(Tail(frames))

\* C5: with a successful session and a 200 answer of /run_sse the client
\* receives one token frame per text part of every backend frame, in order,
\* followed by {done: true}.
C5_TokensForEveryTextPart ==
    (Finished /\ streaming /\ runStatus = 200 /\ failure = "none") =>
        out = ExpectedTokens(stream) \o <<DoneFrame>>

\* C6: every failure of the streaming path produces exactly one error frame;
\* a stream has at most one error frame, no token frame follows it, and it is
\* immediately followed by {done: true}.
C6_OneErrorFrameThenDone ==
    (resp.kind = "stream" /\ SessionAnswerPlain) =>
        /\ Cardinality(Indices("error")) <= 1
        /\ \A i \in Indices("error") : \A j \in Indices("token") : j < i
        /\ Finished =>
             /\ failure # "none" <=> Cardinality(Indices("error")) = 1
             /\ \A i \in Indices("error") : i < Len(out) /\ out[i + 1] = DoneFrame

\* a frame whose payload json.loads rejects
Malformed(f) == f[1] = DATA /\ f[2] \notin {"{", "5"}

\* C7: a backend frame whose payload cannot be parsed produces no token and no
\* error frame and does not abort the stream; every well-formed frame after it
\* still produces its token frames.
C7_MalformedFrameSkipped ==
    \A k \in 1..Len(stream) :
        (Malformed(stream[k]) /\ Finished /\ failure = "none") =>
            LET after == ExpectedTokens(SubSeq(stream, k + 1, Len(stream))) \o <<DoneFrame>>
            IN  /\ Indices("error") = {}
                /\ Len(out) >= Len(after)
                /\ SubSeq(out, Len(out) - Len(after) + 1, Len(out)) = after

\* C8: whenever /run answers 200 the reply is not the empty string.
C8_ReplyNeverEmpty ==
    (Finished /\ ~streaming /\ runStatus = 200) =>
        (resp.kind = "json" /\ resp.reply # <<>>)

\* the text of every part of every event, in array order
RECURSIVE AllTexts(_)
AllTexts(evs) ==
    IF evs = <<>> THEN <<>>
    ELSE LET ps == Head(evs).parts
             RECURSIVE cat(_)
             cat(i) == IF i > Len(ps) THEN <<>> ELSE ps[i].text \o cat(i + 1)
         IN  cat(1) \o AllTexts(Tail(evs))

HasTextPart(evs) ==
    \E i \in 1..Len(evs) : \E j \in 1..Len(evs[i].parts) : evs[i].parts[j].hasText

\* C9 (as stated): when /run answers 200 with at least one text part, the
\* reply is format_text of the trimmed concatenation of every part's text.
C9_ReplyIsFormattedConcatenation ==
    (Finished /\ ~streaming /\ runStatus = 200 /\ HasTextPart(events)) =>
        resp = JSONResponse(format_text(Strip(AllTexts(events))))

\* C9 (amended): when /run answers 200 with at least one text part whose text
\* is not empty, the reply is format_text of the trimmed concatenation of
\* every part's text, in the order of the events and of their parts.
C9_ReplyIsFormattedNonEmptyConcatenation ==
    (Finished /\ ~streaming /\ runStatus = 200 /\ AllTexts(events) # <<>>) =>
        resp = JSONResponse(format_text(Strip(AllTexts(events))))

C9_Witness ==
    /\ Finished /\ ~streaming /\ runStatus = 200
    /\ Len(events) = 2
    /\ Len(events[1].parts) >= 2 /\ Len(events[2].parts) >= 2
    /\ resp.kind = "json"
    /\ resp.reply # AllTexts(events)
    /\ resp.reply # Strip(AllTexts(events))

\* the error the client sees
Reported == IF streaming THEN {out[i] : i \in Indices("error")} ELSE {resp}
\* the error the relay builds for an exception e in the mode of the request
ReportOf(e) == IF streaming THEN StreamException(e)[1] ELSE HandleException(e)
OtherExceptions == {e \in BackendExceptions \cup {KeyErrorId, AttributeErrorGet} : ~e.timeout}

\* C10: in both modes a timeout of a backend call is reported as an error that
\* no other failure is reported as.
C10_TimeoutDistinct ==
    (Finished /\ failure = "timeout") =>
        /\ Reported # {}
        /\ \A e \in OtherExceptions : ReportOf(e) \notin Reported

\* the sessions the call of request r created
SessionsOf(r) == {i \in 1..backendNext : createdFor[i] = r}

\* C11: under any interleaving each request creates its own session, its run
\* call carries the id its own session-creation call returned, and no session
\* id is used by two requests.
C11_RunCarriesOwnSession ==
    \A r \in Reqs :
        /\ Cardinality(SessionsOf(r)) <= 1
        /\ reqSession[r] # NoSession => reqSession[r] \in SessionsOf(r)
        /\ reqRun[r] # NoSession => reqRun[r] = reqSession[r]
        /\ \A q \in Reqs \ {r} : reqRun[r] # NoSession => reqRun[r] # reqRun[q]

C11_Witness ==
    /\ reqRun[1] = 2 /\ reqRun[2] = 1
    /\ reqPc[1] = "done" /\ reqPc[2] = "await_run"

\* the line a header line is to become: the leading run of # counted and
\* removed, then the whitespace after it removed
HeaderAsClaimed(line) ==
    LET rest == LStripSet(line, {"#"})
        level == Len(line) - Len(rest)
        sep == Repeat("=", Min(level * 2, 8))
    IN  <<NL>> \o sep \o <<" ">> \o LStripSet(rest, Whitespace) \o <<" ">> \o sep \o <<NL>>

\* C12: every line that starts, once stripped, with # is emitted as
\* <sep> headerText <sep> between blank lines, where level is the number of
\* leading #, <sep> is min(level * 2, 8) times = and headerText is the line
\* without that run of # and the whitespace after it.
C12_HeaderLines ==
    fmtPc = "once" =>
        LET lines == SplitLines(ReplaceBold(fmtText))
        IN  fmtOnce = Join([i \in 1..Len(lines) |->
                              IF StartsWith(Strip(lines[i]), <<"#">>)
                              THEN HeaderAsClaimed(Strip(lines[i]))
                              ELSE format_line(lines[i])])

\* the text with its first ** turned into <strong>, its second into </strong>
\* and every later one kept; k is the number of ** already met
RECURSIVE FirstPairOnly(_, _)
FirstPairOnly(s, k) ==
    IF Len(s) < 2 THEN s
    ELSE IF s[1] = "*" /\ s[2] = "*"
    THEN (IF k = 0 THEN StrongOpen ELSE IF k = 1 THEN StrongClose ELSE <<"*", "*">>)
         \o FirstPairOnly(SubSeq(s, 3, Len(s)), k + 1)
    ELSE <<s[1]>> \o FirstPairOnly(Tail(s), k)

\* C13: format_text converts only the first pair of ** markers: the first
\* becomes <strong>, the second </strong>, every later ** stays in the output.
C13_FirstPairOnly ==
    fmtPc = "once" =>
        LET lines == SplitLines(FirstPairOnly(fmtText, 0))
        IN  fmtOnce = Join([i \in 1..Len(lines) |-> format_line(lines[i])])

C13_Witness ==
    /\ fmtPc = "once"
    /\ fmtText = <<"*", "*", "a", "*", "*", "*", "*">>
    /\ fmtOnce = StrongOpen \o <<"a">> \o StrongClose \o <<"*", "*">>

\* a text without markdown markers: no **, no line starting with #, "- " or
\* the bullet
Plain(text) ==
    /\ Find(text, <<"*", "*">>) = 0
    /\ \A l \in {SplitLines(text)[i] : i \in 1..Len(SplitLines(text))} :
         /\ ~StartsWith(l, <<"#">>)
         /\ ~StartsWith(l, <<"-", " ">>)
         /\ ~StartsWith(l, <<Bullet, " ">>)

\* C14: for a plain text x without markdown markers,
\* format_text(format_text(x)) = format_text(x).
C14_IdempotentOnPlainText ==
    (fmtPc = "twice" /\ Plain(fmtText)) => fmtTwice = fmtOnce

C14_Witness ==
    /\ fmtPc = "twice" /\ Plain(fmtText)
    /\ Len(SplitLines(fmtText)) >= 2
    /\ fmtOnce # fmtText
    /\ fmtTwice = fmtOnce

\* C15: session creation counts as failed only on a non-2xx answer or a
\* network failure: after any 2xx answer the relay reports no session-creation
\* failure and, when the answer carries an id, issues the run call.
C15_Any2xxSessionProceeds ==
    sessionStatus \in 200..299 =>
        /\ failure # "session"
        /\ (Finished /\ exc # KeyErrorId) => runCalls = 1

\* the frames the client gets when the whole backend text arrives as one chunk
OneChunkFrames(frames) ==
    LET r == ProcessChunk(Wire(frames))
    IN  r.yields \o (IF r.raised # NoExc THEN StreamException(r.raised) ELSE <<DoneFrame>>)

IsToken(f) == f.key = "token"

\* C16: the token frames the client receives depend only on the frames the
\* backend sends, not on how the transport cuts the text into chunks: every
\* split gives the token frames of the unsplit text, in the same order.
C16_TokensIndependentOfChunking ==
    (Finished /\ streaming /\ runStatus = 200 /\ exc \notin BackendExceptions) =>
        SelectSeq(out, IsToken) = SelectSeq(OneChunkFrames(stream), IsToken)

\* C17: the reply of web_server.chat_with_agent is the trimmed concatenation,
\* in event order, of every text part of every event of the run, and an event
\* without content, parts or text does not fail the request.
C17_WebReplyIsConcatenation ==
    /\ webResp.kind = "json" => webResp.reply = Strip(AllTexts(webSeen))
    /\ webResp # WebError(NoneTypeHasNoParts)

\* C18: the global runner is built at most once and never replaced or reset, a
\* failed initialization leaves it unset (so a later request can still build
\* it), and a chat request that creates a session or runs the agent holds the
\* runner.
C18_RunnerBuiltOnce ==
    /\ built <= 1
    /\ runner = (IF built = 0 THEN NoRunner ELSE 1)
    /\ webPc \in {"session", "run"} => (agent_runner # NoRunner /\ agent_runner = runner)

C18_Witness ==
    /\ failed >= 2
    /\ runner # NoRunner
    /\ webPc = "run"
    /\ served >= 2

====
